---- MODULE Spec2Model ----
(***************************************************************************)
(* Model of src/main.py: the streaming chat turn (chat_stream and its      *)
(* event_generator), the title endpoint (generate_conversation_title) and  *)
(* the two tables they read and write (Conversation, Message).             *)
(*                                                                         *)
(* Text is a sequence of tokens (one-character strings for titles, atomic  *)
(* tokens such as "x" or "data: " elsewhere); Python's "" is <<>> and      *)
(* string concatenation is \o.  Every await of a handler is a point where  *)
(* another request may run, so each handler is cut at its awaits.          *)
(***************************************************************************)
EXTENDS Integers, Sequences, FiniteSets, TLC

\* ---------------------------------------------------------------- bounds
MaxTurns == 2
MaxEvents == 2
MaxRun == 50
MaxListings == 2

\* ------------------------------------------------------- program constants
TitleMaxLen == 50
TitleKeep == 47
TitleContextLimit == 10

Turns == 1..MaxTurns
Users == {"u1", "u2"}
ConvIds == {"c1", "c2"}
Prompts == {<<"p">>}

NoConv == [absent |-> TRUE]

NewConversation ==
  <<"N","e","w"," ","C","o","n","v","e","r","s","a","t","i","o","n">>
FallbackTitle == <<"C","o","n","v","e","r","s","a","t","i","o","n">>
Ellipsis == <<".", ".", ".">>

VARIABLES
  Conversation,        \* table "Conversation": id -> row or NoConv
  Message,             \* table "Message": rows in commit order
  now,                 \* last value datetime.utcnow() returned
  pc,                  \* per turn: where chat_stream / event_generator stands
  req,                 \* per turn: current_user.id, req.conv_id, req.prompt
  history_messages,    \* per turn: rows loaded at line 389-393
  conversation_context,\* per turn: text built at line 396-402
  provider_input,      \* per turn: message list given to on_messages_stream
  produced,            \* per turn: events the provider stream has yielded
  assistant_response,  \* per turn: buffer of event_generator
  sent,                \* per turn: strings event_generator has yielded
  saved_ids,           \* per turn: ids of the rows its save_message calls wrote
  model_context,       \* messages openai_agent has kept, shared by all turns
  llm_context,         \* per turn: what openai_agent sent to the model
  title,               \* the title request: position, arguments, response
  created_at,          \* per turn: datetime.utcnow() of the Message being saved
  request_db,          \* per turn: the session get_db yields for the request
  listing              \* GET .../messages: the request and the lists returned

vars == <<Conversation, Message, now, pc, req, history_messages,
          conversation_context, provider_input, produced, assistant_response,
          sent, saved_ids, model_context, llm_context, title, created_at,
          request_db, listing>>

turn_locals == <<req, history_messages, conversation_context, provider_input,
                 produced, assistant_response, sent, saved_ids, llm_context>>

\* ------------------------------------------------------------ pure helpers
Last(s) == s[Len(s)]

RECURSIVE Flatten(_)
Flatten(ss) == IF ss = <<>> THEN <<>> ELSE Head(ss) \o Flatten(Tail(ss))

RECURSIVE Rep(_, _)
Rep(ch, n) == IF n = 0 THEN <<>> ELSE <<ch>> \o Rep(ch, n - 1)

\* role label of line 400 / 471
RoleLabel(role) == IF role = "user" THEN "User" ELSE "Assistant"

\* f"{role}: {msg.content}\n" of line 401 / 472
RenderMessage(msg) == <<RoleLabel(msg.role), ": ">> \o msg.content \o <<"\n">>

\* lines 396-402: "" for an empty history, else header, one line per row, trailer
BuildContext(history) ==
  IF history = <<>> THEN <<>>
  ELSE <<"Previous conversation:\n">>
       \o Flatten([i \in 1..Len(history) |-> RenderMessage(history[i])])
       \o <<"\nCurrent user message: ">>

\* f"data: {payload}\n\n" of lines 421, 428, 432
Sse(payload) == <<"data: ">> \o payload \o <<"\n\n">>
DoneEvent == Sse(<<"[DONE]">>)
ErrorEvent(msg) == Sse(<<"Error: ">> \o msg)
IsErrorEvent(ev) == Len(ev) >= 2 /\ ev[2] = "Error: "

\* the events a provider stream can yield: text deltas (possibly empty) and
\* objects without a content attribute
Chunk(text) == [has_content |-> TRUE, content |-> text]
NoContentEvent == [has_content |-> FALSE, content |-> <<>>]
ProviderEvents == {Chunk(<<"x">>), Chunk(<<"y">>), Chunk(<<>>), NoContentEvent}
ErrorTexts == {<<"provider failed">>}
StoreErrorText == <<"commit failed">>

\* line 419: hasattr(event, "content") and event.content
Relayed(e) == e.has_content /\ e.content # <<>>

\* ------------------------------------------------ title text (lines 488-496)
Whitespace == {" ", "\n"}
Quotes == {"\"", "'"}

\* str.strip(): drop leading and trailing whitespace
RECURSIVE LStrip(_)
LStrip(s) == IF s # <<>> /\ Head(s) \in Whitespace THEN LStrip(Tail(s)) ELSE s

RECURSIVE RStrip(_)
RStrip(s) ==
  IF s # <<>> /\ Last(s) \in Whitespace THEN RStrip(SubSeq(s, 1, Len(s) - 1)) ELSE s

Strip(s) == RStrip(LStrip(s))

\* str.replace(ch, ''): drop every occurrence of the characters
RemoveAll(s, chars) == SelectSeq(s, LAMBDA ch : ch \notin chars)

\* line 494
CleanTitle(s) == Strip(RemoveAll(RemoveAll(s, {"\""}), {"'"}))

\* the cut is made after the limit instead of three characters before it
Truncate_late(s) ==
  IF Len(s) > TitleMaxLen THEN SubSeq(s, 1, TitleMaxLen) \o Ellipsis ELSE s

\* lines 495-496
Truncate(s) == IF Len(s) > TitleMaxLen THEN SubSeq(s, 1, TitleKeep) \o Ellipsis ELSE s

\* lines 488-496: response is the provider's text, or NoChatMessage
NoChatMessage == [chat_message |-> FALSE, content |-> <<>>]
ChatMessage(text) == [chat_message |-> TRUE, content |-> text]

NormalizeTitle(response) ==
  Truncate(CleanTitle(IF response.chat_message THEN Strip(response.content)
                      ELSE FallbackTitle))

\* the title request before any call
NoResponse == [status |-> 0, title |-> <<>>]
NoTitleRequest ==
  [pc |-> "idle", user_id |-> "u1", conversation_id |-> "c1", messages |-> <<>>,
   invoked |-> FALSE, provider |-> NoChatMessage, new_title |-> <<>>,
   outcome |-> "none", response |-> NoResponse]

\* ------------------------------------------------------------------ tables
\* SELECT ... FROM Message WHERE conversationId = c ORDER BY createdAt:
\* every ordering of the conversation's rows that is sorted by createdAt
ConvRows(c) == {i \in 1..Len(Message) : Message[i].conversationId = c}

SelectMessages(c) ==
  LET I == ConvRows(c)
      n == Cardinality(I)
      ords == {f \in [1..n -> I] :
                 /\ \A j, k \in 1..n : j # k => f[j] # f[k]
                 /\ \A j, k \in 1..n :
                      j < k => Message[f[j]].createdAt <= Message[f[k]].createdAt}
  IN {[j \in 1..n |-> Message[f[j]]] : f \in ords}

\* the row is added to the session and never committed
save_message_uncommitted(conv_id, role, content, ts) == Message

\* lines 292-304: a row with a fresh id and the current time, added and committed
save_message(conv_id, role, content, ts) ==
  Append(Message, [id |-> Len(Message) + 1, role |-> role, content |-> content,
                   conversationId |-> conv_id, createdAt |-> ts])

\* GET /chat/{conversation_id}/messages before any request; returned holds
\* the responses given so far
NoListing ==
  [pc |-> "idle", user_id |-> "u1", conversation_id |-> "c1", returned |-> <<>>]

\* datetime.utcnow() at line 301: each save reads a later time than the last
Clock == {now + 1}

Init ==
  /\ Conversation = [c \in ConvIds |-> NoConv]
  /\ Message = <<>>
  /\ now = 0
  /\ pc = [t \in Turns |-> "idle"]
  /\ req = [t \in Turns |-> [user_id |-> "u1", conv_id |-> "c1", prompt |-> <<>>]]
  /\ history_messages = [t \in Turns |-> <<>>]
  /\ conversation_context = [t \in Turns |-> <<>>]
  /\ provider_input = [t \in Turns |-> <<>>]
  /\ produced = [t \in Turns |-> <<>>]
  /\ assistant_response = [t \in Turns |-> <<>>]
  /\ sent = [t \in Turns |-> <<>>]
  /\ saved_ids = [t \in Turns |-> [user |-> {}, assistant |-> {}]]
  /\ model_context = <<>>
  /\ llm_context = [t \in Turns |-> <<>>]
  /\ title = NoTitleRequest
  /\ created_at = [t \in Turns |-> 0]
  /\ request_db = [t \in Turns |-> "none"]
  /\ listing = NoListing

\* ------------------------------------------------------------- chat_stream
\* The sessions a save can go through: "db", the session get_db (lines
\* 130-132) yields for the request and closes when the request is torn down,
\* and "save_db", a session opened by the generator itself (line 425).
Usable(t, handle) == handle = "save_db" \/ request_db[t] = "open"

\* POST /chat/stream arrives, authenticated as user u (lines 379-384).
\* Turn numbers, user names and conversation ids are arbitrary labels: turns
\* start in the order of their numbers and the first one is u1's on c1.
RequestsOf(t) ==
  IF t = 1 THEN {[user_id |-> "u1", conv_id |-> "c1", prompt |-> p] : p \in Prompts}
  ELSE [user_id : Users, conv_id : ConvIds, prompt : Prompts]

chat_stream(t) ==
  /\ pc[t] = "idle"
  /\ \A s \in Turns : s < t => pc[s] # "idle"
  /\ \E r \in RequestsOf(t) : req' = [req EXCEPT ![t] = r]
  /\ pc' = [pc EXCEPT ![t] = "get_conv"]
  /\ request_db' = [request_db EXCEPT ![t] = "open"]
  /\ UNCHANGED <<Conversation, Message, now, history_messages,
                 conversation_context, provider_input, produced,
                 assistant_response, sent, saved_ids, model_context, llm_context, title,
                 created_at, listing>>

\* get_or_create_conversation, lines 309-312: select by id alone
get_or_create_select(t) ==
  /\ pc[t] = "get_conv"
  /\ pc' = [pc EXCEPT ![t] =
              IF Conversation[req[t].conv_id] = NoConv THEN "create_conv"
              ELSE "load_history"]
  /\ UNCHANGED <<Conversation, Message, now, turn_locals, model_context, title,
                 created_at, request_db, listing>>

\* get_or_create_conversation, lines 313-321: insert and commit; the primary
\* key (line 65) rejects a second row with the same id and the handler fails
get_or_create_insert(t) ==
  /\ pc[t] = "create_conv"
  /\ IF Conversation[req[t].conv_id] = NoConv
     THEN /\ Conversation' = [Conversation EXCEPT ![req[t].conv_id] =
                 [title |-> NewConversation, userId |-> req[t].user_id]]
          /\ pc' = [pc EXCEPT ![t] = "load_history"]
     ELSE /\ pc' = [pc EXCEPT ![t] = "failed"]
          /\ UNCHANGED Conversation
  /\ UNCHANGED <<Message, now, turn_locals, model_context, title,
                 created_at, request_db, listing>>

\* lines 388-405: the history arrives, conversation_context is built and
\* save_message runs up to its commit: the user row gets its createdAt here
\* (line 301), before the await of line 304
load_history(t) ==
  /\ pc[t] = "load_history"
  /\ \E h \in SelectMessages(req[t].conv_id) :
       /\ history_messages' = [history_messages EXCEPT ![t] = h]
       /\ conversation_context' = [conversation_context EXCEPT ![t] = BuildContext(h)]
  /\ \E ts \in Clock :
       /\ created_at' = [created_at EXCEPT ![t] = ts]
       /\ now' = ts
  /\ pc' = [pc EXCEPT ![t] = "save_user"]
  /\ UNCHANGED <<Conversation, Message, req, provider_input, produced,
                 assistant_response, sent, saved_ids, model_context, llm_context, title,
                 request_db, listing>>

\* the user row is committed twice
save_user_message_twice(t) ==
  /\ pc[t] = "save_user"
  /\ Usable(t, "db")
  /\ Message' = Append(save_message(req[t].conv_id, "user", req[t].prompt, created_at[t]),
                       [id |-> Len(Message) + 2, role |-> "user", content |-> req[t].prompt,
                        conversationId |-> req[t].conv_id, createdAt |-> created_at[t]])
  /\ saved_ids' = [saved_ids EXCEPT ![t].user = @ \cup {Len(Message) + 1, Len(Message) + 2}]
  /\ pc' = [pc EXCEPT ![t] = "stream_open"]
  /\ UNCHANGED <<Conversation, now, req, history_messages, conversation_context,
                 provider_input, produced, assistant_response, sent, model_context, llm_context, title,
                 created_at, request_db, listing>>

\* line 405 (304): the user row is committed; then line 434 returns the response
save_user_message(t) ==
  /\ pc[t] = "save_user"
  /\ Usable(t, "db")
  /\ Message' = save_message(req[t].conv_id, "user", req[t].prompt, created_at[t])
  /\ saved_ids' = [saved_ids EXCEPT ![t].user = @ \cup {Len(Message) + 1}]
  /\ pc' = [pc EXCEPT ![t] = "stream_open"]
  /\ UNCHANGED <<Conversation, now, req, history_messages, conversation_context,
                 provider_input, produced, assistant_response, sent, model_context, llm_context, title,
                 created_at, request_db, listing>>

\* the failure of line 405 is swallowed and the response is returned
save_user_message_fails_swallowed(t) ==
  /\ pc[t] = "save_user"
  /\ pc' = [pc EXCEPT ![t] = "stream_open"]
  /\ UNCHANGED <<Conversation, Message, now, turn_locals, model_context, title,
                 created_at, request_db, listing>>

\* line 405 raises (the commit fails): the request fails, nothing is streamed
save_user_message_fails(t) ==
  /\ pc[t] = "save_user"
  /\ pc' = [pc EXCEPT ![t] = "failed"]
  /\ UNCHANGED <<Conversation, Message, now, turn_locals, model_context, title,
                 created_at, request_db, listing>>

\* ---------------------------------------------------------- event_generator
\* lines 408-417: the response starts iterating the generator, which hands the
\* provider one TextMessage holding req.prompt
ProviderMessages(t) == <<[content |-> req[t].prompt, source |-> "user"]>>

\* openai_agent (lines 35-40) is one AssistantAgent for the whole process.  An
\* AssistantAgent is stateful: on_messages_stream takes the new messages only
\* (the comment of line 412), adds them to the context it keeps and sends
\* that context to the model.  Only the messages it is given are modelled.
AgentAdd(context, messages) == context \o messages

event_generator_start(t) ==
  /\ pc[t] = "stream_open"
  /\ provider_input' = [provider_input EXCEPT ![t] = ProviderMessages(t)]
  /\ model_context' = AgentAdd(model_context, ProviderMessages(t))
  /\ llm_context' = [llm_context EXCEPT ![t] = model_context']
  /\ assistant_response' = [assistant_response EXCEPT ![t] = <<>>]
  /\ pc' = [pc EXCEPT ![t] = "streaming"]
  /\ UNCHANGED <<Conversation, Message, now, req, history_messages,
                 conversation_context, produced, sent, saved_ids, title,
                 created_at, request_db, listing>>

\* lines 417-421: one event of the stream; relayed and buffered if it has
\* non-empty content
Accumulate_overwrite(buffer, e) == IF Relayed(e) THEN e.content ELSE buffer
Accumulate(buffer, e) == IF Relayed(e) THEN buffer \o e.content ELSE buffer
Emit(out, e) == IF Relayed(e) THEN Append(out, Sse(e.content)) ELSE out

provider_event_of(t, events) ==
  /\ pc[t] = "streaming"
  /\ Len(produced[t]) < MaxEvents
  /\ \E e \in events :
       /\ produced' = [produced EXCEPT ![t] = Append(@, e)]
       /\ assistant_response' = [assistant_response EXCEPT ![t] = Accumulate(@, e)]
       /\ sent' = [sent EXCEPT ![t] = Emit(@, e)]
  /\ UNCHANGED <<Conversation, Message, now, pc, req, history_messages,
                 conversation_context, provider_input, saved_ids, model_context, llm_context, title,
                 created_at, request_db, listing>>

provider_event(t) == provider_event_of(t, ProviderEvents)

\* lines 130-132: the request is torn down and get_db closes its session; this
\* happens once chat_stream has returned, while the response streams or after
request_db_closed(t) ==
  /\ pc[t] \notin {"idle", "get_conv", "create_conv", "load_history", "save_user"}
  /\ request_db[t] = "open"
  /\ request_db' = [request_db EXCEPT ![t] = "closed"]
  /\ UNCHANGED <<Conversation, Message, now, pc, turn_locals, model_context, title,
                 created_at, listing>>

\* lines 423-428: the stream is exhausted; an empty buffer goes straight to
\* [DONE], a non-empty one is saved first on a session of its own, and the
\* assistant row gets its createdAt (line 301) before the commit is awaited
MustSave_always(buffer) == TRUE
MustSave(buffer) == buffer # <<>>

\* [DONE] is yielded as soon as the stream ends, before the save
provider_exhausted_done_first(t) ==
  /\ pc[t] = "streaming"
  /\ IF MustSave(assistant_response[t])
     THEN /\ pc' = [pc EXCEPT ![t] = "save_assistant"]
          /\ \E ts \in Clock :
               /\ created_at' = [created_at EXCEPT ![t] = ts]
               /\ now' = ts
     ELSE /\ pc' = [pc EXCEPT ![t] = "done"]
          /\ UNCHANGED <<created_at, now>>
  /\ sent' = [sent EXCEPT ![t] = Append(@, DoneEvent)]
  /\ UNCHANGED <<Conversation, Message, req, history_messages,
                 conversation_context, provider_input, produced,
                 assistant_response, saved_ids, model_context, llm_context, title,
                 request_db, listing>>

provider_exhausted(t) ==
  /\ pc[t] = "streaming"
  /\ IF MustSave(assistant_response[t])
     THEN /\ pc' = [pc EXCEPT ![t] = "save_assistant"]
          /\ \E ts \in Clock :
               /\ created_at' = [created_at EXCEPT ![t] = ts]
               /\ now' = ts
          /\ UNCHANGED sent
     ELSE /\ pc' = [pc EXCEPT ![t] = "done"]
          /\ sent' = [sent EXCEPT ![t] = Append(@, DoneEvent)]
          /\ UNCHANGED <<created_at, now>>
  /\ UNCHANGED <<Conversation, Message, req, history_messages,
                 conversation_context, provider_input, produced,
                 assistant_response, saved_ids, model_context, llm_context, title,
                 request_db, listing>>

\* the assistant row is saved on the session of the request
AssistantSaveHandle_request == "db"

\* line 425: async with AsyncSessionLocal() as save_db
AssistantSaveHandle == "save_db"

\* lines 425-428: the assistant row is committed, then [DONE] is yielded
save_assistant_message(t) ==
  /\ pc[t] = "save_assistant"
  /\ Usable(t, AssistantSaveHandle)
  /\ Message' = save_message(req[t].conv_id, "assistant", assistant_response[t],
                             created_at[t])
  /\ saved_ids' = [saved_ids EXCEPT ![t].assistant = @ \cup {Len(Message) + 1}]
  /\ sent' = [sent EXCEPT ![t] = Append(@, DoneEvent)]
  /\ pc' = [pc EXCEPT ![t] = "done"]
  /\ UNCHANGED <<Conversation, now, req, history_messages, conversation_context,
                 provider_input, produced, assistant_response, model_context, llm_context, title,
                 created_at, request_db, listing>>

\* lines 430-432: an Exception raised inside the try (by the provider stream
\* or by the assistant save) becomes a final Error event
OnException(out, msg) == Append(out, ErrorEvent(msg))

\* the except branch also saves what was buffered
provider_raises_saving_partial(t) ==
  /\ pc[t] = "streaming"
  /\ \E msg \in ErrorTexts : sent' = [sent EXCEPT ![t] = OnException(@, msg)]
  /\ pc' = [pc EXCEPT ![t] = "error"]
  /\ IF assistant_response[t] # <<>>
     THEN /\ Message' = save_message(req[t].conv_id, "assistant",
                                     assistant_response[t], now + 1)
          /\ now' = now + 1
          /\ saved_ids' = [saved_ids EXCEPT ![t].assistant = @ \cup {Len(Message) + 1}]
     ELSE UNCHANGED <<Message, now, saved_ids>>
  /\ UNCHANGED <<Conversation, req, history_messages, conversation_context,
                 provider_input, produced, assistant_response, model_context,
                 llm_context, title,
                 created_at, request_db, listing>>

provider_raises(t) ==
  /\ pc[t] = "streaming"
  /\ \E msg \in ErrorTexts : sent' = [sent EXCEPT ![t] = OnException(@, msg)]
  /\ pc' = [pc EXCEPT ![t] = "error"]
  /\ UNCHANGED <<Conversation, Message, now, req, history_messages,
                 conversation_context, provider_input, produced,
                 assistant_response, saved_ids, model_context, llm_context, title,
                 created_at, request_db, listing>>

save_assistant_message_fails(t) ==
  /\ pc[t] = "save_assistant"
  /\ sent' = [sent EXCEPT ![t] = OnException(@, StoreErrorText)]
  /\ pc' = [pc EXCEPT ![t] = "error"]
  /\ UNCHANGED <<Conversation, Message, now, req, history_messages,
                 conversation_context, provider_input, produced,
                 assistant_response, saved_ids, model_context, llm_context, title,
                 created_at, request_db, listing>>

\* The client disconnects or the request task is cancelled while the generator
\* is suspended.  asyncio.CancelledError and GeneratorExit are BaseExceptions,
\* which "except Exception" (line 430) does not catch: the generator ends and
\* yields nothing more.
OnCancel(out) == out

cancelled_in_stream(t) ==
  /\ pc[t] \in {"stream_open", "streaming"}
  /\ sent' = [sent EXCEPT ![t] = OnCancel(@)]
  /\ pc' = [pc EXCEPT ![t] = "cancelled"]
  /\ UNCHANGED <<Conversation, Message, now, req, history_messages,
                 conversation_context, provider_input, produced,
                 assistant_response, saved_ids, model_context, llm_context, title,
                 created_at, request_db, listing>>

\* Cancelled while awaiting the commit of line 426: the row may or may not
\* have reached the store, and [DONE] is not yielded
cancelled_in_save(t) ==
  /\ pc[t] = "save_assistant"
  /\ \/ UNCHANGED <<Message, saved_ids>>
     \/ /\ Usable(t, AssistantSaveHandle)
        /\ Message' = save_message(req[t].conv_id, "assistant",
                                   assistant_response[t], created_at[t])
        /\ saved_ids' = [saved_ids EXCEPT ![t].assistant = @ \cup {Len(Message) + 1}]
  /\ sent' = [sent EXCEPT ![t] = OnCancel(@)]
  /\ pc' = [pc EXCEPT ![t] = "cancelled_save"]
  /\ UNCHANGED <<Conversation, now, req, history_messages, conversation_context,
                 provider_input, produced, assistant_response, model_context, llm_context, title,
                 created_at, request_db, listing>>

\* ------------------------------------------------ get_conversation_messages
\* lines 368-376: what a row becomes in the response
MessageOut(msg) ==
  [id |-> msg.id, role |-> msg.role, content |-> msg.content, created_at |-> msg.createdAt]

ListingResponse(u, c, messages) ==
  [user_id |-> u, conversation_id |-> c, status |-> 200, messages |-> messages]

\* the conversation is selected by id alone
get_conversation_messages_by_id ==
  /\ listing.pc = "idle"
  /\ Len(listing.returned) < MaxListings
  /\ \E u \in Users, c \in ConvIds :
       listing' = IF Conversation[c] # NoConv
                  THEN [listing EXCEPT !.pc = "select", !.user_id = u, !.conversation_id = c]
                  ELSE [listing EXCEPT !.user_id = u, !.conversation_id = c,
                          !.returned = Append(@, ListingResponse(u, c, <<>>))]
  /\ UNCHANGED <<Conversation, Message, now, pc, turn_locals, model_context, title,
                 created_at, request_db>>

\* lines 343-359: the request arrives for user u; the conversation is selected
\* by id and owner, and a miss returns the empty list
get_conversation_messages ==
  /\ listing.pc = "idle"
  /\ Len(listing.returned) < MaxListings
  /\ \E u \in Users, c \in ConvIds :
       listing' = IF Conversation[c] # NoConv /\ Conversation[c].userId = u
                  THEN [listing EXCEPT !.pc = "select", !.user_id = u, !.conversation_id = c]
                  ELSE [listing EXCEPT !.user_id = u, !.conversation_id = c,
                          !.returned = Append(@, ListingResponse(u, c, <<>>))]
  /\ UNCHANGED <<Conversation, Message, now, pc, turn_locals, model_context, title,
                 created_at, request_db>>

\* lines 361-376: the messages are selected in createdAt order and returned
list_messages ==
  /\ listing.pc = "select"
  /\ \E rows \in SelectMessages(listing.conversation_id) :
       listing' = [listing EXCEPT !.pc = "idle",
                     !.returned = Append(@, ListingResponse(listing.user_id,
                                    listing.conversation_id,
                                    [i \in 1..Len(rows) |-> MessageOut(rows[i])]))]
  /\ UNCHANGED <<Conversation, Message, now, pc, turn_locals, model_context, title,
                 created_at, request_db>>

\* ---------------------------------------------- generate_conversation_title
\* the provider texts of the title endpoint in Spec and SpecTitle
SmallTexts ==
  {<<"\"", "H", "i", "\"">>, <<" ", "I", "t", "'", "s", " ">>, Rep("a", TitleMaxLen + 1)}

\* the provider texts of SpecNormalize: edge \o a^n \o mid \o a^m \o edge
Edge == {<<>>} \cup {<<c>> : c \in Whitespace \cup Quotes}
        \cup {<<c, d>> : c \in {" ", "\""}, d \in {" ", "'"}}
Mid == {<<>>, <<"'">>, <<" ">>, <<"\"", " ">>}
NormalizeTexts ==
  {pre \o Rep("a", n) \o mid \o Rep("a", m) \o suf :
     pre \in Edge, suf \in Edge, mid \in Mid, n \in 0..MaxRun, m \in 0..2}

\* the conversation is selected by id alone
generate_conversation_title_by_id ==
  /\ title.pc = "idle"
  /\ \E u \in Users, c \in ConvIds :
       LET found == Conversation[c] # NoConv
       IN title' = [NoTitleRequest EXCEPT
                      !.user_id = u, !.conversation_id = c,
                      !.pc = IF found THEN "load" ELSE "returned",
                      !.outcome = IF found THEN "none" ELSE "not_found",
                      !.response = IF found THEN NoResponse
                                   ELSE [status |-> 404, title |-> <<>>]]
  /\ UNCHANGED <<Conversation, Message, now, pc, turn_locals, model_context,
                 created_at, request_db, listing>>

\* lines 437-455: the request arrives for user u; the conversation is selected
\* by id and owner, and a miss is a 404
generate_conversation_title ==
  /\ title.pc = "idle"
  /\ \E u \in Users, c \in ConvIds :
       LET found == Conversation[c] # NoConv /\ Conversation[c].userId = u
       IN title' = [NoTitleRequest EXCEPT
                      !.user_id = u, !.conversation_id = c,
                      !.pc = IF found THEN "load" ELSE "returned",
                      !.outcome = IF found THEN "none" ELSE "not_found",
                      !.response = IF found THEN NoResponse
                                   ELSE [status |-> 404, title |-> <<>>]]
  /\ UNCHANGED <<Conversation, Message, now, pc, turn_locals, model_context,
                 created_at, request_db, listing>>

\* .limit(10) of line 461
FirstRows(rows, n) == SubSeq(rows, 1, IF Len(rows) < n THEN Len(rows) ELSE n)

\* the provider is asked whatever was loaded
title_load_messages_unchecked ==
  /\ title.pc = "load"
  /\ \E rows \in SelectMessages(title.conversation_id) :
       title' = [title EXCEPT !.pc = "provider",
                   !.messages = FirstRows(rows, TitleContextLimit), !.invoked = TRUE]
  /\ UNCHANGED <<Conversation, Message, now, pc, turn_locals, model_context,
                 created_at, request_db, listing>>

\* lines 457-472: load the first messages; none gives the placeholder at once
title_load_messages ==
  /\ title.pc = "load"
  /\ \E rows \in SelectMessages(title.conversation_id) :
       LET messages == FirstRows(rows, TitleContextLimit)
       IN title' = IF messages = <<>>
                   THEN [title EXCEPT !.pc = "returned", !.outcome = "placeholder",
                           !.response = [status |-> 200, title |-> NewConversation]]
                   ELSE [title EXCEPT !.pc = "provider", !.messages = messages,
                           !.invoked = TRUE]
  /\ UNCHANGED <<Conversation, Message, now, pc, turn_locals, model_context,
                 created_at, request_db, listing>>

\* lines 486-499: the provider answers; the title is normalised and set on the row
title_provider_returns(texts) ==
  /\ title.pc = "provider"
  /\ \E response \in {ChatMessage(text) : text \in texts} \cup {NoChatMessage} :
       title' = [title EXCEPT !.pc = "commit", !.provider = response,
                   !.new_title = NormalizeTitle(response)]
  /\ UNCHANGED <<Conversation, Message, now, pc, turn_locals, model_context,
                 created_at, request_db, listing>>

\* the title is returned and never written to the row
title_commit_unsaved ==
  /\ title.pc = "commit"
  /\ title' = [title EXCEPT !.pc = "returned", !.outcome = "generated",
                 !.response = [status |-> 200, title |-> title.new_title]]
  /\ UNCHANGED <<Conversation, Message, now, pc, turn_locals, model_context,
                 created_at, request_db, listing>>

\* lines 500-502: the commit succeeds and the title is returned
title_commit ==
  /\ title.pc = "commit"
  /\ Conversation' = [Conversation EXCEPT ![title.conversation_id].title = title.new_title]
  /\ title' = [title EXCEPT !.pc = "returned", !.outcome = "generated",
                 !.response = [status |-> 200, title |-> title.new_title]]
  /\ UNCHANGED <<Message, now, pc, turn_locals, model_context,
                 created_at, request_db, listing>>

\* lines 504-506: any Exception inside the try returns the fixed title
TitleOnException_raised == [status |-> 500, title |-> <<>>]
TitleOnException == [status |-> 200, title |-> FallbackTitle]

title_provider_fails ==
  /\ title.pc = "provider"
  /\ title' = [title EXCEPT !.pc = "returned", !.outcome = "provider_failed",
                 !.response = TitleOnException]
  /\ UNCHANGED <<Conversation, Message, now, pc, turn_locals, model_context,
                 created_at, request_db, listing>>

title_commit_fails ==
  /\ title.pc = "commit"
  /\ title' = [title EXCEPT !.pc = "returned", !.outcome = "commit_failed",
                 !.response = TitleOnException]
  /\ UNCHANGED <<Conversation, Message, now, pc, turn_locals, model_context,
                 created_at, request_db, listing>>

Next ==
  \/ \E t \in Turns : chat_stream(t)
  \/ \E t \in Turns : get_or_create_select(t)
  \/ \E t \in Turns : get_or_create_insert(t)
  \/ \E t \in Turns : load_history(t)
  \/ \E t \in Turns : save_user_message(t)
  \/ \E t \in Turns : save_user_message_fails(t)
  \/ \E t \in Turns : event_generator_start(t)
  \/ \E t \in Turns : provider_event(t)
  \/ \E t \in Turns : provider_exhausted(t)
  \/ \E t \in Turns : save_assistant_message(t)
  \/ \E t \in Turns : provider_raises(t)
  \/ \E t \in Turns : save_assistant_message_fails(t)
  \/ \E t \in Turns : cancelled_in_stream(t)
  \/ \E t \in Turns : cancelled_in_save(t)

Spec == Init /\ [][Next]_vars

\* one turn and the title endpoint
NextTitle ==
  \/ chat_stream(1)
  \/ get_or_create_select(1)
  \/ get_or_create_insert(1)
  \/ load_history(1)
  \/ save_user_message(1)
  \/ save_user_message_fails(1)
  \/ event_generator_start(1)
  \/ provider_event(1)
  \/ provider_exhausted(1)
  \/ save_assistant_message(1)
  \/ provider_raises(1)
  \/ save_assistant_message_fails(1)
  \/ cancelled_in_stream(1)
  \/ cancelled_in_save(1)
  \/ generate_conversation_title
  \/ title_load_messages
  \/ title_provider_returns(SmallTexts)
  \/ title_commit
  \/ title_provider_fails
  \/ title_commit_fails

SpecTitle == Init /\ [][NextTitle]_vars

\* one turn whose request is torn down at any point after chat_stream returned
NextHandles ==
  \/ chat_stream(1)
  \/ get_or_create_select(1)
  \/ get_or_create_insert(1)
  \/ load_history(1)
  \/ save_user_message(1)
  \/ save_user_message_fails(1)
  \/ event_generator_start(1)
  \/ provider_event(1)
  \/ request_db_closed(1)
  \/ provider_exhausted(1)
  \/ save_assistant_message(1)
  \/ provider_raises(1)
  \/ save_assistant_message_fails(1)
  \/ cancelled_in_stream(1)
  \/ cancelled_in_save(1)

SpecHandles == Init /\ [][NextHandles]_vars

\* the turns, whose providers answer in chunks "x", and the message listing
ListedEvents == {Chunk(<<"x">>)}

NextMessages ==
  \/ \E t \in Turns : chat_stream(t)
  \/ \E t \in Turns : get_or_create_select(t)
  \/ \E t \in Turns : get_or_create_insert(t)
  \/ \E t \in Turns : load_history(t)
  \/ \E t \in Turns : save_user_message(t)
  \/ \E t \in Turns : save_user_message_fails(t)
  \/ \E t \in Turns : event_generator_start(t)
  \/ \E t \in Turns : provider_event_of(t, ListedEvents)
  \/ \E t \in Turns : provider_exhausted(t)
  \/ \E t \in Turns : save_assistant_message(t)
  \/ \E t \in Turns : provider_raises(t)
  \/ \E t \in Turns : save_assistant_message_fails(t)
  \/ \E t \in Turns : cancelled_in_stream(t)
  \/ \E t \in Turns : cancelled_in_save(t)
  \/ get_conversation_messages
  \/ list_messages

SpecMessages == Init /\ [][NextMessages]_vars

\* the title endpoint on the store one finished turn leaves, over NormalizeTexts
InitNormalize ==
  /\ Conversation = [c \in ConvIds |->
        IF c = "c1" THEN [title |-> NewConversation, userId |-> "u1"] ELSE NoConv]
  /\ Message = <<[id |-> 1, role |-> "user", content |-> <<"p">>,
                  conversationId |-> "c1", createdAt |-> 1],
                 [id |-> 2, role |-> "assistant", content |-> <<"x">>,
                  conversationId |-> "c1", createdAt |-> 2]>>
  /\ now = 2
  /\ pc = [t \in Turns |-> IF t = 1 THEN "done" ELSE "idle"]
  /\ req = [t \in Turns |-> [user_id |-> "u1", conv_id |-> "c1",
                             prompt |-> IF t = 1 THEN <<"p">> ELSE <<>>]]
  /\ history_messages = [t \in Turns |-> <<>>]
  /\ conversation_context = [t \in Turns |-> <<>>]
  /\ provider_input = [t \in Turns |-> IF t = 1 THEN ProviderMessages(1) ELSE <<>>]
  /\ produced = [t \in Turns |-> IF t = 1 THEN <<Chunk(<<"x">>)>> ELSE <<>>]
  /\ assistant_response = [t \in Turns |-> IF t = 1 THEN <<"x">> ELSE <<>>]
  /\ sent = [t \in Turns |-> IF t = 1 THEN <<Sse(<<"x">>), DoneEvent>> ELSE <<>>]
  /\ saved_ids = [t \in Turns |-> IF t = 1 THEN [user |-> {1}, assistant |-> {2}]
                                  ELSE [user |-> {}, assistant |-> {}]]
  /\ model_context = ProviderMessages(1)
  /\ llm_context = [t \in Turns |-> IF t = 1 THEN ProviderMessages(1) ELSE <<>>]
  /\ title = NoTitleRequest
  /\ created_at = [t \in Turns |-> IF t = 1 THEN 2 ELSE 0]
  /\ request_db = [t \in Turns |-> IF t = 1 THEN "open" ELSE "none"]
  /\ listing = NoListing

NextNormalize ==
  \/ generate_conversation_title
  \/ title_load_messages
  \/ title_provider_returns(NormalizeTexts)
  \/ title_commit
  \/ title_provider_fails
  \/ title_commit_fails

SpecNormalize == InitNormalize /\ [][NextNormalize]_vars
\* ===================================================================== claims
Rows == {Message[i] : i \in 1..Len(Message)}
RowsOf(ids) == {m \in Rows : m.id \in ids}
ProviderInvoked(t) == provider_input[t] # <<>>
Ended(t) == pc[t] \in {"done", "error", "cancelled", "cancelled_save"}
HasUserMessage(t) ==
  \E m \in RowsOf(saved_ids[t].user) :
    m.role = "user" /\ m.content = req[t].prompt /\ m.conversationId = req[t].conv_id
ProviderRaised(t) ==
  pc[t] = "error" /\ \E msg \in ErrorTexts : Last(sent[t]) = ErrorEvent(msg)
Payload(ev) == SubSeq(ev, 2, Len(ev) - 1)
RelayedText(events) ==
  Flatten([i \in 1..Len(events) |->
             IF Relayed(events[i]) THEN events[i].content ELSE <<>>])

\* C1: the step that invokes the provider for a turn starts from a state in
\* which the turn's user Message (role user, content = prompt, in the turn's
\* conversation) is already in the store, and once stored it stays stored
\* through every later step, however the stream ends.
C1_UserMessageBeforeProvider ==
  [][\A t \in Turns :
       /\ (~ProviderInvoked(t) /\ ProviderInvoked(t)') => HasUserMessage(t)
       /\ HasUserMessage(t) => HasUserMessage(t)'
       /\ Ended(t)' => HasUserMessage(t)']_vars

C1_Witness ==
  \E t \in Turns : ProviderRaised(t) /\ produced[t] # <<>> /\ HasUserMessage(t)

\* C2: every ended stream holds exactly one terminal marker, [DONE] or
\* Error: ..., and it is the last event.
Markers(t) ==
  {i \in 1..Len(sent[t]) : sent[t][i] = DoneEvent \/ IsErrorEvent(sent[t][i])}

C2_ExactlyOneTerminalMarker ==
  \A t \in Turns : Ended(t) => Markers(t) = {Len(sent[t])} /\ sent[t] # <<>>

\* C3: the text handed to the provider holds the rendering of every message
\* of the loaded history, in order, and ends with the new prompt.
RECURSIVE IsSubseq(_, _)
IsSubseq(a, b) ==
  IF a = <<>> THEN TRUE
  ELSE IF b = <<>> THEN FALSE
  ELSE IF Head(a) = Head(b) THEN IsSubseq(Tail(a), Tail(b))
  ELSE IsSubseq(a, Tail(b))

ProviderText(t) ==
  Flatten([i \in 1..Len(provider_input[t]) |-> provider_input[t][i].content])
HistoryText(h) == Flatten([i \in 1..Len(h) |-> RenderMessage(h[i])])

C3_ProviderGetsHistory ==
  \A t \in Turns :
    ProviderInvoked(t) =>
      /\ IsSubseq(HistoryText(history_messages[t]) \o req[t].prompt, ProviderText(t))
      /\ history_messages[t] # <<>> => ProviderText(t) # req[t].prompt

\* C4: a turn that ended with [DONE] after relaying at least one chunk has
\* exactly one assistant row, in its conversation, whose content is the
\* concatenation of the relayed chunks in the order they were sent.
EmittedText(t) ==
  Flatten([i \in 1..(Len(sent[t]) - 1) |-> Payload(sent[t][i])])

C4_SavedEqualsEmitted ==
  \A t \in Turns :
    (pc[t] = "done" /\ Len(sent[t]) > 1) =>
      /\ Last(sent[t]) = DoneEvent
      /\ EmittedText(t) = RelayedText(produced[t])
      /\ Cardinality(saved_ids[t].assistant) = 1
      /\ \A id \in saved_ids[t].assistant :
           /\ Cardinality({i \in 1..Len(Message) : Message[i].id = id}) = 1
           /\ \A m \in RowsOf({id}) :
                /\ m.role = "assistant"
                /\ m.conversationId = req[t].conv_id
                /\ m.content = EmittedText(t)

C4_Witness ==
  \E t \in Turns :
    /\ pc[t] = "done"
    /\ Len(sent[t]) = 3
    /\ sent[t][1] # sent[t][2]
    /\ saved_ids[t].assistant # {}

\* C5: a turn cancelled while its stream was open, or whose provider raised,
\* has written no assistant row (every assistant row belongs to a turn whose
\* stream was exhausted), and its user Message is in the store.
C5_NoPartialAssistantMessage ==
  /\ \A t \in Turns :
       (pc[t] = "cancelled" \/ ProviderRaised(t)) =>
         saved_ids[t].assistant = {} /\ HasUserMessage(t)
  /\ \A m \in Rows :
       m.role = "assistant" =>
         \E t \in Turns : m.id \in saved_ids[t].assistant
                          /\ pc[t] \in {"done", "cancelled_save"}

C5_Witness ==
  /\ \E t \in Turns : pc[t] = "cancelled" /\ assistant_response[t] # <<>>
  /\ \E t \in Turns : ProviderRaised(t) /\ assistant_response[t] # <<>>

\* C6: no assistant row has empty content, and a turn whose exhausted stream
\* relayed nothing is done, has sent [DONE] alone and has written no
\* assistant row.
Exhausted(t) ==
  \/ pc[t] \in {"save_assistant", "done", "cancelled_save"}
  \/ pc[t] = "error" /\ Last(sent[t]) = ErrorEvent(StoreErrorText)

C6_NoEmptyAssistantMessage ==
  /\ \A m \in Rows : m.role = "assistant" => m.content # <<>>
  /\ \A t \in Turns :
       (Exhausted(t) /\ RelayedText(produced[t]) = <<>>) =>
         pc[t] = "done" /\ sent[t] = <<DoneEvent>> /\ saved_ids[t].assistant = {}

C6_Witness ==
  \E t \in Turns :
    /\ pc[t] = "done"
    /\ Len(produced[t]) = MaxEvents
    /\ RelayedText(produced[t]) = <<>>

\* C7: every row a turn wrote is in a conversation that exists and is owned
\* by the turn's user.
C7_WritesOnlyToOwnConversation ==
  \A t \in Turns :
    \A m \in RowsOf(saved_ids[t].user \cup saved_ids[t].assistant) :
      /\ Conversation[m.conversationId] # NoConv
      /\ Conversation[m.conversationId].userId = req[t].user_id
\* C8: for two turns of one user on two distinct conversations: a turn that
\* has not ended can always take a step of its own, whatever the other does;
\* what a turn has sent is what its own provider stream yielded; the assistant
\* rows it wrote are in its own conversation and hold its own chunks; and the
\* context sent to the model for a turn holds only messages of turns on the
\* same conversation (no state written by one turn is read by the other).
TurnStep(t) ==
  \/ get_or_create_select(t)
  \/ get_or_create_insert(t)
  \/ load_history(t)
  \/ save_user_message(t)
  \/ event_generator_start(t)
  \/ provider_exhausted(t)
  \/ save_assistant_message(t)

ChunkText(t) ==
  Flatten([i \in 1..Len(sent[t]) |->
             IF i \in Markers(t) THEN <<>> ELSE Payload(sent[t][i])])
InvokedOn(c) == {s \in Turns : ProviderInvoked(s) /\ req[s].conv_id = c}

C8_IndependentTurns ==
  \A t, s \in Turns :
    (/\ t # s
     /\ pc[t] # "idle" /\ pc[s] # "idle"
     /\ req[t].user_id = req[s].user_id
     /\ req[t].conv_id # req[s].conv_id) =>
      /\ (pc[t] \notin {"failed", "done", "error", "cancelled", "cancelled_save"})
           => ENABLED TurnStep(t)
      /\ ChunkText(t) = RelayedText(produced[t])
      /\ \A m \in RowsOf(saved_ids[t].assistant) :
           m.conversationId = req[t].conv_id /\ m.content = RelayedText(produced[t])
      /\ Len(llm_context[t]) <= Cardinality(InvokedOn(req[t].conv_id))

\* C9 as stated: the generated title is the provider text with the quote
\* characters and whitespace at its two ends stripped and its interior left
\* alone, cut to 47 characters plus "..." when longer than 50.
EndChars == Whitespace \cup Quotes

RECURSIVE StripEnds(_)
StripEnds(s) ==
  IF s # <<>> /\ Head(s) \in EndChars THEN StripEnds(Tail(s))
  ELSE IF s # <<>> /\ Last(s) \in EndChars THEN StripEnds(SubSeq(s, 1, Len(s) - 1))
  ELSE s

CutTo50(w) == IF Len(w) > 50 THEN SubSeq(w, 1, 47) \o <<".", ".", ".">> ELSE w

Generated == title.outcome = "generated" /\ title.provider.chat_message

C9_TitleStripsEndsOnly ==
  Generated => title.response.title = CutTo50(StripEnds(title.provider.content))

\* C9 as amended: the generated title is the provider text with every quote
\* character removed, wherever it stands, and then leading and trailing
\* whitespace stripped; when that is longer than 50 characters the title is
\* its first 47 characters followed by "...".  Every generated title has at
\* most 50 characters, an over-long one has exactly 50 and ends in "...", and
\* the title is what the conversation row now holds.
QuotesRemoved(text) == SelectSeq(text, LAMBDA ch : ch # "\"" /\ ch # "'")

C9_TitleRemovesAllQuotes ==
  Generated =>
    LET w == Strip(QuotesRemoved(title.provider.content))
        T == title.response.title
    IN /\ T = CutTo50(w)
       /\ Len(T) <= 50
       /\ Len(w) > 50 => Len(T) = 50 /\ SubSeq(T, 48, 50) = <<".", ".", ".">>
                         /\ SubSeq(T, 1, 47) = SubSeq(w, 1, 47)
       /\ title.response.status = 200

C9_Witness ==
  /\ Generated
  /\ Len(Strip(QuotesRemoved(title.provider.content))) > 50
  /\ StripEnds(title.provider.content) # Strip(QuotesRemoved(title.provider.content))
  /\ Len(title.response.title) = 50

\* C10: when the provider fails for a conversation the caller owns and that
\* has a message, the request returns status 200 with the title
\* "Conversation".
C10_ProviderFailureFallsBack ==
  title.outcome = "provider_failed" =>
    /\ title.pc = "returned"
    /\ title.response.status = 200
    /\ title.response.title = <<"C","o","n","v","e","r","s","a","t","i","o","n">>

C10_Witness ==
  /\ title.outcome = "provider_failed"
  /\ Conversation[title.conversation_id] # NoConv
  /\ Conversation[title.conversation_id].userId = title.user_id
  /\ title.messages # <<>>
  /\ title.invoked

Owned(u, c) == Conversation[c] # NoConv /\ Conversation[c].userId = u

\* C11: when the title request loads the messages of a conversation that has
\* none, it returns "New Conversation" with status 200, the provider is not
\* invoked, and no Conversation row changes.
C11_EmptyConversationPlaceholder ==
  [][(title.pc = "load" /\ title'.pc # "load" /\ ConvRows(title.conversation_id) = {}) =>
       /\ title'.pc = "returned"
       /\ title'.response = [status |-> 200,
             title |-> <<"N","e","w"," ","C","o","n","v","e","r","s","a","t","i","o","n">>]
       /\ ~title'.invoked
       /\ title'.provider = NoChatMessage
       /\ Conversation' = Conversation]_vars

C11_Witness ==
  /\ title.outcome = "placeholder"
  /\ Owned(title.user_id, title.conversation_id)
  /\ ConvRows(title.conversation_id) = {}
  /\ title.response.status = 200

\* C12: a title request for a conversation that is absent or owned by someone
\* else returns 404 at once, without invoking the provider and without
\* changing any Conversation row; and a title only ever changes while a
\* request of the conversation's owner for that conversation is running.
C12_NotFoundOrNotOwned ==
  [][/\ (title.pc = "idle" /\ title'.pc # "idle"
          /\ ~Owned(title'.user_id, title'.conversation_id)) =>
            /\ title'.pc = "returned"
            /\ title'.response.status = 404
            /\ ~title'.invoked
            /\ Conversation' = Conversation
     /\ \A c \in ConvIds :
          (Conversation[c] # NoConv /\ Conversation'[c] # NoConv
             /\ Conversation'[c].title # Conversation[c].title) =>
            /\ title.pc # "idle"
            /\ title.conversation_id = c
            /\ title.user_id = Conversation[c].userId]_vars

C12_Witness ==
  /\ title.outcome = "not_found"
  /\ Conversation[title.conversation_id] # NoConv
  /\ Conversation[title.conversation_id].userId # title.user_id
  /\ ConvRows(title.conversation_id) # {}
  /\ title.response.status = 404

\* C18 (as stated): whenever the title request returns a title with status 200
\* for a conversation with a message, the stored title equals the returned one.
C18_ReturnedTitleIsStored ==
  (title.pc = "returned" /\ title.messages # <<>> /\ title.response.status = 200) =>
    Conversation[title.conversation_id].title = title.response.title

\* C18 (amended): a title built from the provider's answer is returned only
\* after it is stored; when the provider or the commit fails, "Conversation"
\* is returned and the stored title stays what it was ("New Conversation",
\* the title every conversation is created with).
C18_GeneratedTitleIsStored ==
  /\ title.outcome = "generated" =>
        /\ title.response.title = NormalizeTitle(title.provider)
        /\ Conversation[title.conversation_id].title = title.response.title
  /\ title.outcome \in {"provider_failed", "commit_failed"} =>
        /\ title.response.title = FallbackTitle
        /\ Conversation[title.conversation_id].title = NewConversation

C18_Witness ==
  /\ title.outcome = "generated"
  /\ title.messages # <<>>
  /\ title.response.status = 200
  /\ Conversation[title.conversation_id].title # NewConversation

ListingStep == listing' # listing
IsPrefix(a, b) == Len(a) <= Len(b) /\ SubSeq(b, 1, Len(a)) = a

\* C13: a listing request for a conversation that is absent or owned by
\* someone else is answered at once with status 200 and the empty list, in
\* whatever state the store is; no step of a listing changes a Conversation or
\* a Message; and every message a listing returned to a user is a row of a
\* conversation that user owns.
C13_ListingOfForeignConversationIsEmpty ==
  [][/\ (ListingStep /\ listing.pc = "idle"
          /\ ~Owned(listing'.user_id, listing'.conversation_id)) =>
            /\ listing'.pc = "idle"
            /\ listing'.returned =
                 Append(listing.returned,
                        [user_id |-> listing'.user_id,
                         conversation_id |-> listing'.conversation_id,
                         status |-> 200, messages |-> <<>>])
     /\ ListingStep => Conversation' = Conversation /\ Message' = Message
     /\ \A i \in 1..Len(listing'.returned) :
          LET r == listing'.returned[i]
          IN \A j \in 1..Len(r.messages) :
               \E m \in Rows' :
                 /\ m.id = r.messages[j].id
                 /\ m.content = r.messages[j].content
                 /\ m.conversationId = r.conversation_id
                 /\ Conversation'[m.conversationId] # NoConv
                 /\ Conversation'[m.conversationId].userId = r.user_id]_vars

\* the same foreign conversation, holding messages, was listed twice
C13_Witness ==
  /\ Len(listing.returned) = 2
  /\ listing.returned[1] = listing.returned[2]
  /\ listing.returned[1].messages = <<>>
  /\ Conversation[listing.returned[1].conversation_id] # NoConv
  /\ Conversation[listing.returned[1].conversation_id].userId # listing.returned[1].user_id
  /\ ConvRows(listing.returned[1].conversation_id) # {}

\* C14: every listing returns the messages in strictly increasing creation
\* time, and of two listings of one conversation by its owner the later
\* extends the earlier as a prefix.
C14_ListingsAppendOnly ==
  /\ \A i \in 1..Len(listing.returned) :
        LET ms == listing.returned[i].messages
        IN \A j, k \in 1..Len(ms) : j < k => ms[j].created_at < ms[k].created_at
  /\ \A i, j \in 1..Len(listing.returned) :
        (i < j /\ listing.returned[i].conversation_id = listing.returned[j].conversation_id
               /\ listing.returned[i].user_id = listing.returned[j].user_id) =>
          IsPrefix(listing.returned[i].messages, listing.returned[j].messages)

PastUserSave(t) ==
  pc[t] \notin {"idle", "get_conv", "create_conv", "load_history", "save_user"}

\* C15: a turn that left the user-message write without a stored user Message
\* has failed: it invoked no provider, emitted nothing and stored no assistant
\* Message, and it stays that way.
C15_UserWriteFailureFailsTurn ==
  \A t \in Turns :
    (PastUserSave(t) /\ created_at[t] # 0 /\ saved_ids[t].user = {}) =>
      /\ pc[t] = "failed"
      /\ ~ProviderInvoked(t)
      /\ produced[t] = <<>>
      /\ sent[t] = <<>>
      /\ saved_ids[t].assistant = {}
      /\ \A m \in Rows : m.role = "assistant" =>
            \E s \in Turns \ {t} : m.id \in saved_ids[s].assistant

C15_Witness ==
  \E t \in Turns :
    /\ pc[t] = "failed"
    /\ created_at[t] # 0
    /\ saved_ids[t].user = {}
    /\ Conversation[req[t].conv_id] # NoConv

Done(t) == \E i \in 1..Len(sent[t]) : sent[t][i] = DoneEvent

\* C16: the assistant Message is written in a step that starts after the
\* stream is exhausted and every chunk has been relayed, and before [DONE] is
\* emitted; no chunk is produced or relayed after the write; and when [DONE]
\* has been emitted for a non-empty response the assistant Message is stored.
C16_AssistantWriteBetweenExhaustionAndDone ==
  [][\A t \in Turns :
       /\ saved_ids'[t].assistant # saved_ids[t].assistant =>
             /\ pc[t] = "save_assistant"
             /\ ~Done(t)
             /\ Flatten([i \in 1..Len(sent[t]) |-> Payload(sent[t][i])])
                  = RelayedText(produced[t])
             /\ produced'[t] = produced[t]
       /\ saved_ids[t].assistant # {} =>
             /\ produced'[t] = produced[t]
             /\ sent'[t] \in {sent[t], Append(sent[t], DoneEvent)}
       /\ (Done(t)' /\ assistant_response'[t] # <<>>) =>
             \E m \in Rows' :
               /\ m.id \in saved_ids'[t].assistant
               /\ m.role = "assistant"
               /\ m.content = assistant_response'[t]]_vars

C16_Witness ==
  \E t \in Turns :
    /\ Done(t)
    /\ Len(sent[t]) > 2
    /\ saved_ids[t].assistant # {}
    /\ assistant_response[t] # <<>>

\* C19: no turn fails in get_or_create_conversation (a failed turn that never
\* reached save_message, so never read a createdAt, failed there).
C19_NoTurnFailsInResolveOrCreate ==
  \A t \in Turns : ~(pc[t] = "failed" /\ created_at[t] = 0)

\* C17: the assistant save does not go through the session of the request:
\* whenever a turn is at its assistant save the save can be carried out, also
\* when the request's session was closed while the stream ran, and a turn that
\* ended with [DONE] after a non-empty response has its assistant Message
\* stored whatever became of the request's session.
C17_AssistantSavedOnFreshHandle ==
  \A t \in Turns :
    /\ pc[t] = "save_assistant" => ENABLED save_assistant_message(t)
    /\ (pc[t] = "done" /\ assistant_response[t] # <<>>) =>
          \E m \in RowsOf(saved_ids[t].assistant) : m.content = assistant_response[t]

C17_Witness ==
  \E t \in Turns :
    /\ pc[t] = "done"
    /\ request_db[t] = "closed"
    /\ Len(produced[t]) = MaxEvents
    /\ \E m \in RowsOf(saved_ids[t].assistant) :
          m.role = "assistant" /\ m.content = assistant_response[t]

UserRows(c) == {m \in Rows : m.conversationId = c /\ m.role = "user"}
AssistantRows(c) == {m \in Rows : m.conversationId = c /\ m.role = "assistant"}
Finished(t) == Ended(t) \/ pc[t] = "failed"

\* C20 (as stated): every finished turn has contributed exactly one user
\* Message.
C20_EveryTurnOneUserMessage ==
  \A t \in Turns : Finished(t) => Cardinality(saved_ids[t].user) = 1

\* C20 (amended): each conversation holds at most as many assistant Messages
\* as user Messages; every Message was written by exactly one turn, into that
\* turn's conversation; a turn has written at most one user and at most one
\* assistant Message, exactly one user Message once it is past the
\* user-message write without having failed and none if it failed; and a
\* turn's assistant Message was inserted after its user Message.
C20_AssistantNeverOutnumbersUser ==
  /\ \A c \in ConvIds : Cardinality(AssistantRows(c)) <= Cardinality(UserRows(c))
  /\ \A m \in Rows :
        \E t \in Turns :
          /\ m.conversationId = req[t].conv_id
          /\ \/ m.role = "user" /\ m.id \in saved_ids[t].user
             \/ m.role = "assistant" /\ m.id \in saved_ids[t].assistant
          /\ \A s \in Turns \ {t} :
                m.id \notin saved_ids[s].user \cup saved_ids[s].assistant
  /\ \A t \in Turns :
        /\ Cardinality(saved_ids[t].user) <= 1
        /\ Cardinality(saved_ids[t].assistant) <= 1
        /\ (PastUserSave(t) /\ pc[t] # "failed") => Cardinality(saved_ids[t].user) = 1
        /\ pc[t] = "failed" => saved_ids[t].user = {}
        /\ \A a \in RowsOf(saved_ids[t].assistant) :
              \E u \in RowsOf(saved_ids[t].user) :
                u.id < a.id /\ u.createdAt < a.createdAt

C20_Witness ==
  \E t, s \in Turns :
    /\ t # s
    /\ req[t].conv_id = req[s].conv_id
    /\ pc[t] = "done" /\ pc[s] = "done"
    /\ saved_ids[t].assistant # {}
    /\ saved_ids[s].assistant # {}
    /\ \E a \in saved_ids[t].assistant, u \in saved_ids[s].user : a < u
    /\ \E a \in saved_ids[s].assistant, u \in saved_ids[t].user : a > u
====
